---- MODULE Spec2Model ----
(***************************************************************************)
(* TeeStream: a std::ostream whose streambuf (TeeStreamBuf) collects the   *)
(* bytes of each calling thread in a thread_local buffer and fans them out *)
(* to a list of registered std::ostream destinations.                      *)
(*                                                                         *)
(* The model follows src/benchmark.sh lines 123-296 (the text of           *)
(* TeeStream.cpp) and src/include/TeeStream.h.  Every thread is a small    *)
(* program counter machine; a step is a piece of code between two points   *)
(* where the thread touches shared state (the streams_mutex, the streams   *)
(* vector, a destination).                                                 *)
(*                                                                         *)
(* Bytes.  The code never looks at the value of a byte, it only copies.    *)
(* The k-th byte a thread t passes to xsputn is modelled by the number     *)
(* Byte(t, k), so every byte of a run is distinct and loss, duplication    *)
(* and reordering are all visible in a destination's content.              *)
(***************************************************************************)
EXTENDS Integers, Naturals, Sequences, FiniteSets, TLC

Threads == {1, 2}
\* the std::ostringstream destinations
Dests == {"d1", "d2"}
\* a FailingStream: its failbit is set and every write to it fails
Failing == {"bad"}
\* a destination whose rdbuf()->pubsync() fails
SyncFailing == {"nosync"}
\* a destination with exceptions(failbit | badbit) set whose write fails:
\* write throws std::ios_base::failure
Throwing == {"thrower"}
\* every std::ostream a TeeStream may be given
AllDests == Dests \cup Failing \cup SyncFailing \cup Throwing

\* the thread of the single-threaded specification
MainThread == CHOOSE t \in Threads : \A u \in Threads : t <= u

\* calls (xsputn, flush_thread_buffer, sync, add_stream, remove_stream) in a
\* run of one thread
MaxCalls == 4
\* calls in a run of several threads
MaxCallsMT == 3

\* no thread owns the mutex exclusively
NoThread == 0

Byte(t, k) == 100 * t + k
Owner(b) == b \div 100
Index(b) == b % 100

VARIABLES
    given,            \* what the constructor was given: buffer_size, flush_threshold, the streams
    inst,             \* the TeeStream being called, and the members of the other one
    buffer_size,      \* TeeStreamBuf::buffer_size
    flush_threshold,  \* TeeStreamBuf::flush_threshold
    streams,          \* TeeStreamBuf::streams, the vector of destinations
    streams_mutex,    \* the std::shared_mutex: its exclusive owner and its shared owners
    local_buffer,     \* the thread_local ThreadBuffer of every thread
    content,          \* what each destination ostream has accumulated
    racing,           \* threads whose current stream.write overlaps another thread's write to the same ostream
    pc,               \* where each thread is
    frame,            \* the arguments and locals of the call a thread is in
    result,           \* value returned to the thread by its last xsputn / sync
    chunks,           \* history: lengths of the chunks each thread passed to xsputn
    calls,            \* history: number of calls made so far
    flushed,          \* history: bytes whose fan-out (flush or bypass) has finished
    fanouts,          \* history: the finished fan-outs, each with its payload and the streams it found
    raced,            \* history: bytes that were part of an overlapping stream.write
    dirty,            \* history: destinations added or removed after the first xsputn call
    nreg,             \* history: per destination, the add_stream calls since it was last absent
    addSnap,          \* history: per destination, the situation at its latest registration
    rmSnap            \* history: per destination, the situation at its latest removal

vars == <<given, inst, buffer_size, flush_threshold, streams, streams_mutex, local_buffer,
          content, racing, pc, frame, result, chunks, calls, flushed, fanouts, raced,
          dirty, nreg, addSnap, rmSnap>>

----------------------------------------------------------------------------
(* Sequences *)

RECURSIVE SumSeq(_)
SumSeq(s) == IF s = <<>> THEN 0 ELSE Head(s) + SumSeq(Tail(s))

Range(s) == {s[j] : j \in 1..Len(s)}

\* the bytes of thread t in a destination's content, in the order they arrived
Own(s, t) == SelectSeq(s, LAMBDA b : Owner(b) = t)

\* number of entries of the registry that refer to destination d
Count(reg, d) == Cardinality({j \in 1..Len(reg) : reg[j] = d})

\* s repeated k times
RECURSIVE Rep(_, _)
Rep(s, k) == IF k = 0 THEN <<>> ELSE s \o Rep(s, k - 1)

\* bytes number lo..hi of thread t
BytesOf(t, lo, hi) == [j \in 1..(hi - lo + 1) |-> Byte(t, lo + j - 1)]

\* number of bytes thread t has passed to xsputn so far
wcount(t) == SumSeq(chunks[t])

----------------------------------------------------------------------------
(* The shared_mutex *)

Unlocked == [writer |-> NoThread, readers |-> {}]

\* std::shared_lock<std::shared_mutex> lock(streams_mutex) can return
CanLockShared == streams_mutex.writer = NoThread
LockShared(t) == [streams_mutex EXCEPT !.readers = @ \cup {t}]
UnlockShared(m, t) == [m EXCEPT !.readers = @ \ {t}]

\* std::unique_lock<std::shared_mutex> lock(streams_mutex) can return
CanLockUnique == streams_mutex.writer = NoThread /\ streams_mutex.readers = {}
LockUnique(t) == [streams_mutex EXCEPT !.writer = t]
\* a unique lock that is never released
UnlockUnique_Never(t) == streams_mutex
\* the std::unique_lock goes out of scope
UnlockUnique(t) == [streams_mutex EXCEPT !.writer = NoThread]

----------------------------------------------------------------------------
(* Construction *)

\* size_t, scaled down: an unsigned integer of SizeBits bits
SizeBits == 4
SizeMod == 2 ^ SizeBits

\* TeeStreamBuf::TeeStreamBuf(buffer_size, flush_threshold): the product of
\* line 148 is a size_t and wraps around
TeeStreamBuf(size, threshold) ==
    [buffer_size |-> size,
     flush_threshold |-> IF threshold >= size
                         THEN ((size * 3) % SizeMod) \div 4
                         ELSE threshold]

\* TeeStreamBuf::ThreadBuffer::ThreadBuffer(buffer_size): data is buffer[0..used)
ThreadBuffer(size) == [size |-> size, data |-> <<>>]

\* a thread whose thread_local unique_ptr is still null
NoBuffer == [size |-> 0 - 1, data |-> <<>>]

\* get_thread_buffer() with a pointer that is not thread_local: every thread
\* gets the buffer the first thread made
get_thread_buffer_shared(t) ==
    LET made == {u \in Threads : local_buffer[u] # NoBuffer}
    IN IF made = {}
       THEN ThreadBuffer(buffer_size)
       ELSE local_buffer[CHOOSE u \in made : \A v \in made : u <= v]

\* TeeStreamBuf::get_thread_buffer(): the buffer of thread t after the call
get_thread_buffer(t) ==
    IF local_buffer[t] = NoBuffer THEN ThreadBuffer(buffer_size) ELSE local_buffer[t]

\* tb->used
used(tb) == Len(tb.data)

\* the frame of a thread that is in no call: op is the function called, path
\* the branch xsputn took, s the chunk, d the stream argument, and
\* buffer_copy, i, all_good the locals of the source; ret is where
\* flush_thread_buffer returns to; data0 and mark remember the thread's buffer
\* and its bytes in the destinations at the time of the call, seen the streams
\* vector as the latest loop of the call found it and visited the streams that
\* loop has been through; exc tells that the call was left by an exception,
\* fill is tb->used after the memcpy of xsputn
NoFrame == [op |-> "none", path |-> "none", s |-> <<>>, d |-> "none",
            buffer_copy |-> <<>>, i |-> 0,
            all_good |-> TRUE, ret |-> "none", data0 |-> <<>>,
            mark |-> [d \in AllDests |-> 0],
            seen |-> <<>>, visited |-> <<>>, exc |-> FALSE, fill |-> 0]

\* how many of its own bytes thread t finds in each destination
OwnMark(t) == [d \in AllDests |-> Len(Own(content[d], t))]

NoSnap == [wcount |-> [t \in Threads |-> 0], flushed |-> {}, clen |-> 0, since |-> {}]

\* (capacity, threshold) pairs passed to the constructor
Configs == {<<5, 4>>}
ConfigsMT == {<<4, 3>>}

\* destinations registered, in this order, before the threads start to write
Registries == {<<>>, <<"d1">>, <<"d1", "d2">>, <<"d1", "d1">>}
RegistriesMT == {<<"d1">>}

\* add_stream that skips a stream it already holds
emplace_back_dedup(reg, d) == IF d \in Range(reg) THEN reg ELSE Append(reg, d)

\* add_stream putting the new stream in front
emplace_front(reg, d) == <<d>> \o reg

\* streams.emplace_back(stream)
emplace_back(reg, d) == Append(reg, d)

\* std::remove_if without the erase: the vector keeps its length and its tail
remove_if_only(reg, d) ==
    LET kept == SelectSeq(reg, LAMBDA e : e # d)
    IN kept \o SubSeq(reg, Len(kept) + 1, Len(reg))

\* remove_stream erasing only the first reference to the stream
erase_first(reg, d) ==
    IF d \notin Range(reg) THEN reg
    ELSE LET j == CHOOSE k \in 1..Len(reg) : reg[k] = d /\ \A m \in 1..(k - 1) : reg[m] # d
         IN SubSeq(reg, 1, j - 1) \o SubSeq(reg, j + 1, Len(reg))

\* streams.erase(std::remove_if(..., &ref.get() == &stream), streams.end())
erase_remove_if(reg, d) == SelectSeq(reg, LAMBDA e : e # d)

\* the fold of the constructor taking the streams from the last to the first
RECURSIVE AddAll_Backwards(_, _)
AddAll_Backwards(reg, args) ==
    IF args = <<>> THEN reg
    ELSE emplace_back(AddAll_Backwards(reg, Tail(args)), Head(args))

\* TeeStream(Streams&... streams): (add_stream(streams), ...) calls add_stream
\* for each stream of args in turn, on a new TeeStream
RECURSIVE AddAll(_, _)
AddAll(reg, args) ==
    IF args = <<>> THEN reg ELSE AddAll(emplace_back(reg, Head(args)), Tail(args))

InitWith(cfgs, regs) ==
    /\ \E c \in cfgs :
          /\ buffer_size = TeeStreamBuf(c[1], c[2]).buffer_size
          /\ flush_threshold = TeeStreamBuf(c[1], c[2]).flush_threshold
          /\ \E r \in regs : /\ given = <<c[1], c[2], r>>
                             /\ streams = AddAll(<<>>, r)
                             /\ nreg = [d \in AllDests |-> Count(r, d)]
    /\ streams_mutex = Unlocked
    /\ local_buffer = [t \in Threads |-> NoBuffer]
    /\ content = [d \in AllDests |-> <<>>]
    /\ racing = {}
    /\ pc = [t \in Threads |-> "idle"]
    /\ frame = [t \in Threads |-> NoFrame]
    /\ result = [t \in Threads |-> 0]
    /\ chunks = [t \in Threads |-> <<>>]
    /\ calls = 0
    /\ flushed = {}
    /\ fanouts = {}
    /\ raced = {}
    /\ dirty = {}
    /\ addSnap = [d \in AllDests |-> NoSnap]
    /\ rmSnap = [d \in AllDests |-> NoSnap]

\* the members of a TeeStream
Members(size, threshold, reg) ==
    [buffer_size |-> TeeStreamBuf(size, threshold).buffer_size,
     flush_threshold |-> TeeStreamBuf(size, threshold).flush_threshold,
     streams |-> AddAll(<<>>, reg),
     streams_mutex |-> Unlocked]

\* the program has one TeeStream
OneTeeStream == [this |-> 1, other |-> Members(0, 0, <<>>), marks |-> <<>>]

Init == InitWith(ConfigsMT, RegistriesMT) /\ inst = OneTeeStream
SeqInit == InitWith(Configs, Registries) /\ inst = OneTeeStream

----------------------------------------------------------------------------
(* stream.write(buffer, n) on a destination *)

\* thread t is inside stream.write of a fan-out loop
InWrite(t) == pc[t] \in {"x_write", "f_write"}

\* the destination thread t is writing to
CurDest(t) == streams[frame[t].i]

\* the threads, other than t, that are inside stream.write on destination d
Overlapping(t, d) == {u \in Threads \ {t} : InWrite(u) /\ CurDest(u) = d}

\* the racing threads once thread t has entered stream.write on destination d
Enter(t, d) ==
    IF Overlapping(t, d) # {}
    THEN racing \cup {t} \cup Overlapping(t, d)
    ELSE racing \ {t}

\* what an ostream holds after write(payload): all of it when no other thread
\* is inside the same ostream; two unsynchronised writes to one ostream are a
\* data race, after which any part of the payload may have been stored
StreamWrite(old, payload, isRacing) ==
    IF isRacing
    THEN {old \o SubSeq(payload, 1, k) : k \in 0..Len(payload)}
    ELSE {old \o payload}

\* what destination d holds after stream.write(payload): a stream whose
\* failbit is set stores nothing
write(d, payload, isRacing) ==
    IF d \in Failing THEN {content[d]} ELSE StreamWrite(content[d], payload, isRacing)

\* stream.write on destination d throws
throws(d) == d \in Throwing

\* an exception thrown by stream.write on destination d leaves the loop and,
\* caught nowhere, flush_thread_buffer, xsputn or sync: the shared_lock is
\* released, and the copy of the buffer destroyed, on the way out
Unwind(t, d) ==
    /\ pc' = [pc EXCEPT ![t] = "idle"]
    /\ frame' = [frame EXCEPT ![t].exc = TRUE, ![t].i = 0, ![t].buffer_copy = <<>>,
                              ![t].ret = "none", ![t].visited = Append(@, d)]
    /\ streams_mutex' = UnlockShared(streams_mutex, t)
    /\ racing' = racing \ {t}
    /\ UNCHANGED <<content, raced, flushed, fanouts, result>>

----------------------------------------------------------------------------
(* flush_thread_buffer(), lines 177-206 *)

\* flush_thread_buffer copying one byte too few (memcpy of used - 1 bytes)
FlushEntry_Short(t, tb, f, ret) ==
    IF used(tb) = 0
    THEN /\ local_buffer' = [local_buffer EXCEPT ![t] = tb]
         /\ frame' = [frame EXCEPT ![t] = f]
         /\ pc' = [pc EXCEPT ![t] = ret]
    ELSE /\ local_buffer' = [local_buffer EXCEPT ![t] = [tb EXCEPT !.data = <<>>]]
         /\ frame' = [frame EXCEPT ![t] = [f EXCEPT !.buffer_copy = SubSeq(tb.data, 1, used(tb) - 1),
                                                    !.ret = ret]]
         /\ pc' = [pc EXCEPT ![t] = "f_lock"]

\* flush_thread_buffer without line 193: tb->used is not reset
FlushEntry_NoReset(t, tb, f, ret) ==
    IF used(tb) = 0
    THEN /\ local_buffer' = [local_buffer EXCEPT ![t] = tb]
         /\ frame' = [frame EXCEPT ![t] = f]
         /\ pc' = [pc EXCEPT ![t] = ret]
    ELSE /\ local_buffer' = [local_buffer EXCEPT ![t] = tb]
         /\ frame' = [frame EXCEPT ![t] = [f EXCEPT !.buffer_copy = tb.data, !.ret = ret]]
         /\ pc' = [pc EXCEPT ![t] = "f_lock"]

\* flush_thread_buffer emptying the buffer of every thread
FlushEntry_All(t, tb, f, ret) ==
    IF used(tb) = 0
    THEN /\ local_buffer' = [local_buffer EXCEPT ![t] = tb]
         /\ frame' = [frame EXCEPT ![t] = f]
         /\ pc' = [pc EXCEPT ![t] = ret]
    ELSE /\ local_buffer' = [u \in Threads |->
                                IF u = t THEN [tb EXCEPT !.data = <<>>]
                                ELSE IF local_buffer[u] = NoBuffer THEN NoBuffer
                                ELSE [local_buffer[u] EXCEPT !.data = <<>>]]
         /\ frame' = [frame EXCEPT ![t] = [f EXCEPT !.buffer_copy = tb.data, !.ret = ret]]
         /\ pc' = [pc EXCEPT ![t] = "f_lock"]

\* flush_thread_buffer without the test of line 181: an empty buffer is
\* handed to the streams like any other
FlushEntry_Always(t, tb, f, ret) ==
    /\ local_buffer' = [local_buffer EXCEPT ![t] = [tb EXCEPT !.data = <<>>]]
    /\ frame' = [frame EXCEPT ![t] = [f EXCEPT !.buffer_copy = tb.data, !.ret = ret]]
    /\ pc' = [pc EXCEPT ![t] = "f_lock"]

\* lines 178-193, entered by thread t whose buffer is tb; the caller goes on
\* at ret.  f is the frame of the caller.
FlushEntry(t, tb, f, ret) ==
    IF used(tb) = 0
    THEN /\ local_buffer' = [local_buffer EXCEPT ![t] = tb]
         /\ frame' = [frame EXCEPT ![t] = f]
         /\ pc' = [pc EXCEPT ![t] = ret]
    ELSE /\ local_buffer' = [local_buffer EXCEPT ![t] = [tb EXCEPT !.data = <<>>]]
         /\ frame' = [frame EXCEPT ![t] = [f EXCEPT !.buffer_copy = tb.data, !.ret = ret]]
         /\ pc' = [pc EXCEPT ![t] = "f_lock"]

\* line 206: flush_thread_buffer returns to its caller; when the caller is
\* xsputn at line 252, xsputn returns n at line 255
FlushReturn(t, found, been) ==
    /\ flushed' = flushed \cup Range(frame[t].buffer_copy)
    /\ fanouts' = fanouts \cup {[payload |-> frame[t].buffer_copy, seen |-> found]}
    /\ pc' = [pc EXCEPT ![t] = frame[t].ret]
    /\ frame' = [frame EXCEPT ![t].buffer_copy = <<>>, ![t].i = 0, ![t].ret = "none",
                              ![t].seen = found, ![t].visited = been]
    /\ result' = IF frame[t].op = "xsputn" /\ frame[t].ret = "idle"
                 THEN [result EXCEPT ![t] = Len(frame[t].s)]
                 ELSE result

\* flush_thread_buffer keeping the bytes when there is no stream to write to
FLock_Keep(t) ==
    /\ pc[t] = "f_lock"
    /\ CanLockShared
    /\ IF streams = <<>>
       THEN /\ FlushReturn(t, streams, <<>>)
            /\ streams_mutex' = UnlockShared(LockShared(t), t)
            /\ local_buffer' = [local_buffer EXCEPT ![t].data = frame[t].buffer_copy \o @]
            /\ UNCHANGED racing
       ELSE /\ pc' = [pc EXCEPT ![t] = "f_write"]
            /\ frame' = [frame EXCEPT ![t].i = 1, ![t].seen = streams, ![t].visited = <<>>]
            /\ streams_mutex' = LockShared(t)
            /\ racing' = Enter(t, streams[1])
            /\ UNCHANGED <<flushed, fanouts, result, local_buffer>>
    /\ UNCHANGED <<given, inst, buffer_size, flush_threshold, streams, content,
                   chunks, calls, raced, dirty, nreg, addSnap, rmSnap>>

\* flush_thread_buffer waiting until no other thread holds the lock, shared or not
FLock_Exclusive(t) ==
    /\ pc[t] = "f_lock"
    /\ CanLockUnique
    /\ IF streams = <<>>
       THEN /\ FlushReturn(t, streams, <<>>)
            /\ streams_mutex' = UnlockShared(LockShared(t), t)
            /\ UNCHANGED racing
       ELSE /\ pc' = [pc EXCEPT ![t] = "f_write"]
            /\ frame' = [frame EXCEPT ![t].i = 1, ![t].seen = streams, ![t].visited = <<>>]
            /\ streams_mutex' = LockShared(t)
            /\ racing' = Enter(t, streams[1])
            /\ UNCHANGED <<flushed, fanouts, result>>
    /\ UNCHANGED <<given, inst, buffer_size, flush_threshold, streams, local_buffer, content,
                   chunks, calls, raced, dirty, nreg, addSnap, rmSnap>>


\* line 196: the shared lock is taken; lines 199-202: the loop is entered, or,
\* with no stream, the function returns and drops the lock
FLock(t) ==
    /\ pc[t] = "f_lock"
    /\ CanLockShared
    /\ IF streams = <<>>
       THEN /\ FlushReturn(t, streams, <<>>)
            /\ streams_mutex' = UnlockShared(LockShared(t), t)
            /\ UNCHANGED racing
       ELSE /\ pc' = [pc EXCEPT ![t] = "f_write"]
            /\ frame' = [frame EXCEPT ![t].i = 1, ![t].seen = streams, ![t].visited = <<>>]
            /\ streams_mutex' = LockShared(t)
            /\ racing' = Enter(t, streams[1])
            /\ UNCHANGED <<flushed, fanouts, result>>
    /\ UNCHANGED <<given, inst, buffer_size, flush_threshold, streams, local_buffer, content,
                   chunks, calls, raced, dirty, nreg, addSnap, rmSnap>>

\* flush_thread_buffer trying a stream whose write failed a second time
FWrite_Retry(t) ==
    /\ pc[t] = "f_write"
    /\ LET i == frame[t].i
           d == streams[i]
           been == frame[t].visited
           again == d \in Failing /\ (been = <<>> \/ been[Len(been)] # d)
       IN IF throws(d)
          THEN Unwind(t, d)
          ELSE /\ \E c \in write(d, frame[t].buffer_copy, t \in racing) :
                     content' = [content EXCEPT ![d] = c]
               /\ raced' = IF t \in racing THEN raced \cup Range(frame[t].buffer_copy) ELSE raced
               /\ IF again
                  THEN /\ frame' = [frame EXCEPT ![t].visited = Append(@, d)]
                       /\ UNCHANGED <<pc, streams_mutex, racing, flushed, fanouts, result>>
                  ELSE IF i < Len(streams)
                  THEN /\ frame' = [frame EXCEPT ![t].i = i + 1, ![t].visited = Append(@, d)]
                       /\ racing' = Enter(t, streams[i + 1])
                       /\ UNCHANGED <<pc, streams_mutex, flushed, fanouts, result>>
                  ELSE /\ FlushReturn(t, frame[t].seen, Append(frame[t].visited, d))
                       /\ streams_mutex' = UnlockShared(streams_mutex, t)
                       /\ racing' = racing \ {t}
    /\ UNCHANGED <<given, inst, buffer_size, flush_threshold, streams, local_buffer,
                   chunks, calls, dirty, nreg, addSnap, rmSnap>>

\* line 203: stream.write(buffer_copy.get(), buffer_size) returns; the loop
\* goes on to the next stream, or the function returns and drops the lock
FWrite(t) ==
    /\ pc[t] = "f_write"
    /\ LET i == frame[t].i
           d == streams[i]
       IN IF throws(d)
          THEN Unwind(t, d)
          ELSE /\ \E c \in write(d, frame[t].buffer_copy, t \in racing) :
                     content' = [content EXCEPT ![d] = c]
               /\ raced' = IF t \in racing THEN raced \cup Range(frame[t].buffer_copy) ELSE raced
               /\ IF i < Len(streams)
                  THEN /\ frame' = [frame EXCEPT ![t].i = i + 1, ![t].visited = Append(@, d)]
                       /\ racing' = Enter(t, streams[i + 1])
                       /\ UNCHANGED <<pc, streams_mutex, flushed, fanouts, result>>
                  ELSE /\ FlushReturn(t, frame[t].seen, Append(frame[t].visited, d))
                       /\ streams_mutex' = UnlockShared(streams_mutex, t)
                       /\ racing' = racing \ {t}
    /\ UNCHANGED <<given, inst, buffer_size, flush_threshold, streams, local_buffer,
                   chunks, calls, dirty, nreg, addSnap, rmSnap>>

\* TeeStream::flush_thread_buffer() is called
FlushCall(t) ==
    /\ pc[t] = "idle"
    /\ FlushEntry(t, get_thread_buffer(t),
                  [NoFrame EXCEPT !.op = "flush", !.mark = OwnMark(t),
                                  !.data0 = get_thread_buffer(t).data],
                  "idle")
    /\ calls' = calls + 1
    /\ UNCHANGED <<given, inst, buffer_size, flush_threshold, streams, streams_mutex, content, racing,
                   result, chunks, flushed, fanouts, raced, dirty, nreg, addSnap, rmSnap>>

----------------------------------------------------------------------------
(* xsputn(s, n), lines 218-256 *)

\* lines 247-255 with line 251 comparing by > instead of >=
CopyChunk_Gt(t, tb, f) ==
    LET nb == [tb EXCEPT !.data = @ \o f.s]
        g == [f EXCEPT !.fill = used(nb)]
    IN IF used(nb) > flush_threshold
       THEN /\ FlushEntry(t, nb, g, "idle")
            /\ UNCHANGED result
       ELSE /\ local_buffer' = [local_buffer EXCEPT ![t] = nb]
            /\ frame' = [frame EXCEPT ![t] = g]
            /\ pc' = [pc EXCEPT ![t] = "idle"]
            /\ result' = [result EXCEPT ![t] = Len(f.s)]

\* lines 247-255: the chunk of frame f is copied behind the bytes of buffer tb;
\* below the threshold xsputn returns n, else it flushes first
CopyChunk(t, tb, f) ==
    LET nb == [tb EXCEPT !.data = @ \o f.s]
        g == [f EXCEPT !.fill = used(nb)]
    IN IF used(nb) >= flush_threshold
       THEN /\ FlushEntry(t, nb, g, "idle")
            /\ UNCHANGED result
       ELSE /\ local_buffer' = [local_buffer EXCEPT ![t] = nb]
            /\ frame' = [frame EXCEPT ![t] = g]
            /\ pc' = [pc EXCEPT ![t] = "idle"]
            /\ result' = [result EXCEPT ![t] = Len(f.s)]

\* xsputn returning early for a negative length only
nothing_to_write_negative(n) == n < 0

\* line 219: n <= 0
nothing_to_write(n) == n <= 0

\* xsputn that never flushes to make room
would_overflow_never(tb, n) == FALSE

\* line 242: tb->used + n > tb->size
would_overflow(tb, n) == used(tb) + n > tb.size

\* xsputn is called by thread t with its next n bytes: lines 218-244, and
\* lines 247-255 when the buffer has room
XsputnCall(t, n) ==
    /\ pc[t] = "idle"
    /\ LET s == BytesOf(t, wcount(t) + 1, wcount(t) + n)
           tb == get_thread_buffer(t)
           f == [NoFrame EXCEPT !.op = "xsputn", !.s = s, !.mark = OwnMark(t),
                                !.data0 = local_buffer[t].data]
       IN /\ chunks' = [chunks EXCEPT ![t] = Append(@, n)]
          /\ calls' = calls + 1
          /\ IF nothing_to_write(n)
             THEN /\ pc' = [pc EXCEPT ![t] = "idle"]
                  /\ frame' = [frame EXCEPT ![t] = [f EXCEPT !.path = "empty"]]
                  /\ result' = [result EXCEPT ![t] = 0]
                  /\ UNCHANGED local_buffer
             ELSE IF n >= tb.size
             THEN /\ pc' = [pc EXCEPT ![t] = "x_lock"]
                  /\ frame' = [frame EXCEPT ![t] = [f EXCEPT !.path = "bypass"]]
                  /\ local_buffer' = [local_buffer EXCEPT ![t] = tb]
                  /\ UNCHANGED result
             ELSE IF would_overflow(tb, n)
             THEN /\ FlushEntry(t, tb, [f EXCEPT !.path = "overflow"], "x_copy")
                  /\ UNCHANGED result
             ELSE CopyChunk(t, tb, [f EXCEPT !.path = "buffered"])
    /\ UNCHANGED <<given, inst, buffer_size, flush_threshold, streams, streams_mutex, content, racing,
                   flushed, fanouts, raced, dirty, nreg, addSnap, rmSnap>>

\* the copy after the flush of line 243 going behind the place tb->used had
\* when xsputn was called
XCopy_Stale(t) ==
    /\ pc[t] = "x_copy"
    /\ CopyChunk(t, [local_buffer[t] EXCEPT !.data = frame[t].data0], frame[t])
    /\ UNCHANGED <<given, inst, buffer_size, flush_threshold, streams, streams_mutex, content, racing,
                   chunks, calls, flushed, fanouts, raced, dirty, nreg, addSnap, rmSnap>>

\* lines 247-255, after the flush of line 243
XCopy(t) ==
    /\ pc[t] = "x_copy"
    /\ CopyChunk(t, local_buffer[t], frame[t])
    /\ UNCHANGED <<given, inst, buffer_size, flush_threshold, streams, streams_mutex, content, racing,
                   chunks, calls, flushed, fanouts, raced, dirty, nreg, addSnap, rmSnap>>

\* line 238 returning n whatever the streams did
BypassReturn_Always(t, good, found, been) ==
    /\ flushed' = flushed \cup Range(frame[t].s)
    /\ fanouts' = fanouts \cup {[payload |-> frame[t].s, seen |-> found]}
    /\ pc' = [pc EXCEPT ![t] = "idle"]
    /\ frame' = [frame EXCEPT ![t].i = 0, ![t].all_good = good,
                              ![t].seen = found, ![t].visited = been]
    /\ result' = [result EXCEPT ![t] = Len(frame[t].s)]

\* line 238: the bypass returns n when every stream was good, and drops the lock
BypassReturn(t, good, found, been) ==
    /\ flushed' = flushed \cup Range(frame[t].s)
    /\ fanouts' = fanouts \cup {[payload |-> frame[t].s, seen |-> found]}
    /\ pc' = [pc EXCEPT ![t] = "idle"]
    /\ frame' = [frame EXCEPT ![t].i = 0, ![t].all_good = good,
                              ![t].seen = found, ![t].visited = been]
    /\ result' = [result EXCEPT ![t] = IF good THEN Len(frame[t].s) ELSE 0]

\* the bypass of xsputn dropping the bytes the buffer holds
XLock_Discard(t) ==
    /\ pc[t] = "x_lock"
    /\ CanLockShared
    /\ local_buffer' = [local_buffer EXCEPT ![t].data = <<>>]
    /\ IF streams = <<>>
       THEN /\ BypassReturn(t, TRUE, streams, <<>>)
            /\ streams_mutex' = UnlockShared(LockShared(t), t)
            /\ UNCHANGED racing
       ELSE /\ pc' = [pc EXCEPT ![t] = "x_write"]
            /\ frame' = [frame EXCEPT ![t].i = 1, ![t].all_good = TRUE,
                                      ![t].seen = streams, ![t].visited = <<>>]
            /\ streams_mutex' = LockShared(t)
            /\ racing' = Enter(t, streams[1])
            /\ UNCHANGED <<flushed, fanouts, result>>
    /\ UNCHANGED <<given, inst, buffer_size, flush_threshold, streams, content,
                   chunks, calls, raced, dirty, nreg, addSnap, rmSnap>>


\* line 228: the shared lock is taken; lines 230-232: the loop is entered, or,
\* with no stream, line 238
XLock(t) ==
    /\ pc[t] = "x_lock"
    /\ CanLockShared
    /\ IF streams = <<>>
       THEN /\ BypassReturn(t, TRUE, streams, <<>>)
            /\ streams_mutex' = UnlockShared(LockShared(t), t)
            /\ UNCHANGED racing
       ELSE /\ pc' = [pc EXCEPT ![t] = "x_write"]
            /\ frame' = [frame EXCEPT ![t].i = 1, ![t].all_good = TRUE,
                                      ![t].seen = streams, ![t].visited = <<>>]
            /\ streams_mutex' = LockShared(t)
            /\ racing' = Enter(t, streams[1])
            /\ UNCHANGED <<flushed, fanouts, result>>
    /\ UNCHANGED <<given, inst, buffer_size, flush_threshold, streams, local_buffer, content,
                   chunks, calls, raced, dirty, nreg, addSnap, rmSnap>>

\* !stream.write(s, n) is false: the stream is good after the write
good_after_write(d) == d \notin Failing

\* line 233 writing at most a buffer's worth: stream.write(s, tb->size)
XWrite_Trunc(t) ==
    /\ pc[t] = "x_write"
    /\ LET i == frame[t].i
           d == streams[i]
           good == frame[t].all_good /\ good_after_write(d)
           part == SubSeq(frame[t].s, 1, local_buffer[t].size)
       IN IF throws(d)
          THEN Unwind(t, d)
          ELSE /\ \E c \in write(d, part, t \in racing) :
                     content' = [content EXCEPT ![d] = c]
               /\ raced' = IF t \in racing THEN raced \cup Range(frame[t].s) ELSE raced
               /\ IF i < Len(streams)
                  THEN /\ frame' = [frame EXCEPT ![t].i = i + 1, ![t].all_good = good,
                                                 ![t].visited = Append(@, d)]
                       /\ racing' = Enter(t, streams[i + 1])
                       /\ UNCHANGED <<pc, streams_mutex, flushed, fanouts, result>>
                  ELSE /\ BypassReturn(t, good, frame[t].seen, Append(frame[t].visited, d))
                       /\ streams_mutex' = UnlockShared(streams_mutex, t)
                       /\ racing' = racing \ {t}
    /\ UNCHANGED <<given, inst, buffer_size, flush_threshold, streams, local_buffer,
                   chunks, calls, dirty, nreg, addSnap, rmSnap>>

\* line 233: stream.write(s, n) returns; the loop goes on to the next stream,
\* or line 238
XWrite(t) ==
    /\ pc[t] = "x_write"
    /\ LET i == frame[t].i
           d == streams[i]
           good == frame[t].all_good /\ good_after_write(d)
       IN IF throws(d)
          THEN Unwind(t, d)
          ELSE /\ \E c \in write(d, frame[t].s, t \in racing) :
                     content' = [content EXCEPT ![d] = c]
               /\ raced' = IF t \in racing THEN raced \cup Range(frame[t].s) ELSE raced
               /\ IF i < Len(streams)
                  THEN /\ frame' = [frame EXCEPT ![t].i = i + 1, ![t].all_good = good,
                                                 ![t].visited = Append(@, d)]
                       /\ racing' = Enter(t, streams[i + 1])
                       /\ UNCHANGED <<pc, streams_mutex, flushed, fanouts, result>>
                  ELSE /\ BypassReturn(t, good, frame[t].seen, Append(frame[t].visited, d))
                       /\ streams_mutex' = UnlockShared(streams_mutex, t)
                       /\ racing' = racing \ {t}
    /\ UNCHANGED <<given, inst, buffer_size, flush_threshold, streams, local_buffer,
                   chunks, calls, dirty, nreg, addSnap, rmSnap>>

----------------------------------------------------------------------------
(* sync(), lines 259-274 *)

\* sync without line 260: the calling thread's buffer is not flushed
SyncCall_NoFlush(t) ==
    /\ pc[t] = "idle"
    /\ local_buffer' = [local_buffer EXCEPT ![t] = get_thread_buffer(t)]
    /\ frame' = [frame EXCEPT ![t] = [NoFrame EXCEPT !.op = "sync", !.mark = OwnMark(t),
                                                     !.data0 = get_thread_buffer(t).data]]
    /\ pc' = [pc EXCEPT ![t] = "s_lock"]
    /\ calls' = calls + 1
    /\ UNCHANGED <<given, inst, buffer_size, flush_threshold, streams, streams_mutex, content, racing,
                   result, chunks, flushed, fanouts, raced, dirty, nreg, addSnap, rmSnap>>

\* line 260: sync flushes the calling thread's buffer
SyncEnter(t) ==
    /\ pc[t] = "idle"
    /\ FlushEntry(t, get_thread_buffer(t),
                  [NoFrame EXCEPT !.op = "sync", !.mark = OwnMark(t),
                                  !.data0 = get_thread_buffer(t).data],
                  "s_lock")
    /\ UNCHANGED <<given, inst, buffer_size, flush_threshold, streams, streams_mutex, content, racing,
                   result, chunks, flushed, fanouts, raced, dirty, nreg, addSnap, rmSnap>>

\* sync is called, as one of the calls of a run
SyncCall(t) ==
    /\ SyncEnter(t)
    /\ calls' = calls + 1

\* line 273: sync returns 0 when every pubsync succeeded, else -1, and drops the lock
SyncReturn(t, good, found, been) ==
    /\ pc' = [pc EXCEPT ![t] = "idle"]
    /\ frame' = [frame EXCEPT ![t].i = 0, ![t].all_good = good,
                              ![t].seen = found, ![t].visited = been]
    /\ result' = [result EXCEPT ![t] = IF good THEN 0 ELSE 0 - 1]

\* line 263: the shared lock is taken; lines 265-267: the loop is entered, or,
\* with no stream, line 273
SLock(t) ==
    /\ pc[t] = "s_lock"
    /\ CanLockShared
    /\ IF streams = <<>>
       THEN /\ SyncReturn(t, TRUE, streams, <<>>)
            /\ streams_mutex' = UnlockShared(LockShared(t), t)
       ELSE /\ pc' = [pc EXCEPT ![t] = "s_sync"]
            /\ frame' = [frame EXCEPT ![t].i = 1, ![t].all_good = TRUE,
                                      ![t].seen = streams, ![t].visited = <<>>]
            /\ streams_mutex' = LockShared(t)
            /\ UNCHANGED result
    /\ UNCHANGED <<given, inst, buffer_size, flush_threshold, streams, local_buffer, content, racing,
                   chunks, calls, flushed, fanouts, raced, dirty, nreg, addSnap, rmSnap>>

\* stream.rdbuf()->pubsync() of a destination
pubsync(d) == IF d \in SyncFailing THEN 0 - 1 ELSE 0

\* sync reporting the result of the last pubsync only
SSync_Last(t) ==
    /\ pc[t] = "s_sync"
    /\ LET i == frame[t].i
           good == pubsync(streams[i]) # 0 - 1
       IN IF i < Len(streams)
          THEN /\ frame' = [frame EXCEPT ![t].i = i + 1, ![t].all_good = good,
                                         ![t].visited = Append(@, streams[i])]
               /\ UNCHANGED <<pc, streams_mutex, result>>
          ELSE /\ SyncReturn(t, good, frame[t].seen, Append(frame[t].visited, streams[i]))
               /\ streams_mutex' = UnlockShared(streams_mutex, t)
    /\ UNCHANGED <<given, inst, buffer_size, flush_threshold, streams, local_buffer, content, racing,
                   chunks, calls, flushed, fanouts, raced, dirty, nreg, addSnap, rmSnap>>


\* line 268: pubsync returns; the loop goes on to the next stream, or line 273
SSync(t) ==
    /\ pc[t] = "s_sync"
    /\ LET i == frame[t].i
           good == frame[t].all_good /\ pubsync(streams[i]) # 0 - 1
       IN IF i < Len(streams)
          THEN /\ frame' = [frame EXCEPT ![t].i = i + 1, ![t].all_good = good,
                                         ![t].visited = Append(@, streams[i])]
               /\ UNCHANGED <<pc, streams_mutex, result>>
          ELSE /\ SyncReturn(t, good, frame[t].seen, Append(frame[t].visited, streams[i]))
               /\ streams_mutex' = UnlockShared(streams_mutex, t)
    /\ UNCHANGED <<given, inst, buffer_size, flush_threshold, streams, local_buffer, content, racing,
                   chunks, calls, flushed, fanouts, raced, dirty, nreg, addSnap, rmSnap>>

----------------------------------------------------------------------------
(* add_stream, lines 158-161, and remove_stream, lines 164-174 *)

\* some thread has called xsputn
Written == \E t \in Threads : chunks[t] # <<>>

\* the situation a destination is added or removed in
Snap(d, since) == [wcount |-> [t \in Threads |-> wcount(t)], flushed |-> flushed,
                   clen |-> Len(content[d]), since |-> since]

\* add_stream(stream) is called
AddCall(t, d) ==
    /\ pc[t] = "idle"
    /\ pc' = [pc EXCEPT ![t] = "a_lock"]
    /\ frame' = [frame EXCEPT ![t] = [NoFrame EXCEPT !.op = "add", !.d = d]]
    /\ calls' = calls + 1
    /\ UNCHANGED <<given, inst, buffer_size, flush_threshold, streams, streams_mutex, local_buffer,
                   content, racing, result, chunks, flushed, fanouts, raced, dirty, nreg, addSnap, rmSnap>>

\* add_stream taking the lock although other threads hold it shared
ALock_NoWait(t) ==
    /\ pc[t] = "a_lock"
    /\ streams_mutex.writer = NoThread
    /\ streams_mutex' = LockUnique(t)
    /\ pc' = [pc EXCEPT ![t] = "a_emplace"]
    /\ UNCHANGED <<given, inst, buffer_size, flush_threshold, streams, local_buffer, content, racing,
                   frame, result, chunks, calls, flushed, fanouts, raced, dirty, nreg, addSnap, rmSnap>>

\* line 159: add_stream takes the lock exclusively
ALock(t) ==
    /\ pc[t] = "a_lock"
    /\ CanLockUnique
    /\ streams_mutex' = LockUnique(t)
    /\ pc' = [pc EXCEPT ![t] = "a_emplace"]
    /\ UNCHANGED <<given, inst, buffer_size, flush_threshold, streams, local_buffer, content, racing,
                   frame, result, chunks, calls, flushed, fanouts, raced, dirty, nreg, addSnap, rmSnap>>

\* add_stream that brings the new stream up to date with the first one
AEmplace_Replay(t) ==
    /\ pc[t] = "a_emplace"
    /\ LET d == frame[t].d
       IN /\ streams' = emplace_back(streams, d)
          /\ content' = IF streams = <<>> THEN content
                        ELSE [content EXCEPT ![d] = @ \o content[streams[1]]]
          /\ addSnap' = [addSnap EXCEPT ![d] =
                            Snap(d, IF nreg[d] = 0 THEN flushed ELSE @.since)]
          /\ nreg' = [nreg EXCEPT ![d] = @ + 1]
          /\ dirty' = IF Written THEN dirty \cup {d} ELSE dirty
    /\ streams_mutex' = UnlockUnique(t)
    /\ pc' = [pc EXCEPT ![t] = "idle"]
    /\ UNCHANGED <<given, inst, buffer_size, flush_threshold, local_buffer, racing, frame,
                   result, chunks, calls, flushed, fanouts, raced, rmSnap>>

\* lines 160-161: the reference is appended, add_stream returns and drops the lock
AEmplace(t) ==
    /\ pc[t] = "a_emplace"
    /\ LET d == frame[t].d
       IN /\ streams' = emplace_back(streams, d)
          /\ addSnap' = [addSnap EXCEPT ![d] =
                            Snap(d, IF nreg[d] = 0 THEN flushed ELSE @.since)]
          /\ nreg' = [nreg EXCEPT ![d] = @ + 1]
          /\ dirty' = IF Written THEN dirty \cup {d} ELSE dirty
    /\ streams_mutex' = UnlockUnique(t)
    /\ pc' = [pc EXCEPT ![t] = "idle"]
    /\ UNCHANGED <<given, inst, buffer_size, flush_threshold, local_buffer, content, racing, frame,
                   result, chunks, calls, flushed, fanouts, raced, rmSnap>>

\* remove_stream(stream) is called
RemoveCall(t, d) ==
    /\ pc[t] = "idle"
    /\ pc' = [pc EXCEPT ![t] = "r_lock"]
    /\ frame' = [frame EXCEPT ![t] = [NoFrame EXCEPT !.op = "remove", !.d = d]]
    /\ calls' = calls + 1
    /\ UNCHANGED <<given, inst, buffer_size, flush_threshold, streams, streams_mutex, local_buffer,
                   content, racing, result, chunks, flushed, fanouts, raced, dirty, nreg, addSnap, rmSnap>>

\* line 165
RLock(t) ==
    /\ pc[t] = "r_lock"
    /\ CanLockUnique
    /\ streams_mutex' = LockUnique(t)
    /\ pc' = [pc EXCEPT ![t] = "r_erase"]
    /\ UNCHANGED <<given, inst, buffer_size, flush_threshold, streams, local_buffer, content, racing,
                   frame, result, chunks, calls, flushed, fanouts, raced, dirty, nreg, addSnap, rmSnap>>

\* lines 166-174: remove_if goes through the vector, every reference to the
\* stream is erased, remove_stream returns and drops the lock
RErase(t) ==
    /\ pc[t] = "r_erase"
    /\ LET d == frame[t].d
       IN /\ streams' = erase_remove_if(streams, d)
          /\ rmSnap' = IF nreg[d] > 0
                        THEN [rmSnap EXCEPT ![d] = Snap(d, addSnap[d].since)]
                        ELSE rmSnap
          /\ nreg' = [nreg EXCEPT ![d] = 0]
          /\ dirty' = IF Written THEN dirty \cup {d} ELSE dirty
    /\ frame' = [frame EXCEPT ![t].seen = streams, ![t].visited = streams]
    /\ streams_mutex' = UnlockUnique(t)
    /\ pc' = [pc EXCEPT ![t] = "idle"]
    /\ UNCHANGED <<given, inst, buffer_size, flush_threshold, local_buffer, content, racing,
                   result, chunks, calls, flushed, fanouts, raced, addSnap>>

----------------------------------------------------------------------------
(* The specifications *)

\* a step inside a call
Step(t) ==
    \/ FLock(t) \/ FWrite(t)
    \/ XLock(t) \/ XWrite(t) \/ XCopy(t)
    \/ SLock(t) \/ SSync(t)
    \/ ALock(t) \/ AEmplace(t)
    \/ RLock(t) \/ RErase(t)

\* a call by thread t with a chunk length of lens, adding a stream of adds or
\* removing one of rems, in a run of at most m calls
Call(t, m, lens, adds, rems) ==
    /\ calls < m
    /\ \/ \E n \in lens : XsputnCall(t, n)
       \/ FlushCall(t)
       \/ SyncCall(t)
       \/ \E d \in adds : AddCall(t, d)
       \/ \E d \in rems : RemoveCall(t, d)

\* the chunk lengths one thread tries: nothing, every length the buffer can
\* hold, the capacity itself and one more
ChunkLens == 0..(buffer_size + 1)

\* the chunk lengths several threads try: one byte, the longest chunk that is
\* buffered, and a chunk of the capacity
ChunkLensMT == {1, buffer_size - 1, buffer_size}

\* any number of threads use one TeeStream
\* the streams several threads add, those the constructor was not given, and
\* the streams they remove, those it was given
AddedMT == {d \in Dests : \A r \in RegistriesMT : d \notin Range(r)}
RemovedMT == Dests \ AddedMT

Next == \E t \in Threads : Call(t, MaxCallsMT, ChunkLensMT, AddedMT, RemovedMT) \/ Step(t)
Spec == Init /\ [][Next]_vars

\* one thread uses one TeeStream
SeqNext == Call(MainThread, MaxCalls, ChunkLens, Dests, Dests) \/ Step(MainThread)
SeqSpec == SeqInit /\ [][SeqNext]_vars

----------------------------------------------------------------------------
(* What a call delivered *)

\* thread t is back from a call of op
Returned(t, op) == pc[t] = "idle" /\ frame[t].op = op

\* the bytes of thread t that destination d received since t's latest call began
Delivered(t, d) ==
    LET own == Own(content[d], t)
    IN SubSeq(own, frame[t].mark[d] + 1, Len(own))

\* every byte thread t has passed to xsputn, in the order of the calls
AllBytes(t) == BytesOf(t, 1, wcount(t))

\* destination d has been registered k times since before the first write
Settled(d, k) == nreg[d] = k /\ d \notin dirty

\* tb->used once the chunk of frame f, shorter than the capacity, is appended:
\* behind the buffered bytes when it fits, else into the emptied buffer
FillAfter(f) ==
    IF Len(f.data0) + Len(f.s) > buffer_size THEN Len(f.s) ELSE Len(f.data0) + Len(f.s)

----------------------------------------------------------------------------
(* Fan-out, ordering and flushing by one thread: SeqSpec *)

\* C1: after a single write of S and a flush, each destination registered
\* (once) before the write holds exactly S
FanOutFidelity ==
    \A t \in Threads : \A d \in Dests :
        (Returned(t, "flush") /\ Len(chunks[t]) = 1 /\ Settled(d, 1))
            => content[d] = AllBytes(t)

\* a chunk shorter than the threshold stayed buffered, and the flush brought it
\* to both destinations
FanOutFidelityWitness ==
    \E t \in Threads :
        /\ Returned(t, "flush") /\ Len(chunks[t]) = 1
        /\ chunks[t][1] \in 1..(flush_threshold - 1)
        /\ frame[t].data0 = AllBytes(t)
        /\ \A d \in Dests : Settled(d, 1) /\ content[d] = AllBytes(t)

\* C2: after any sequence of writes by one thread, of any lengths, and a flush,
\* each destination registered for the whole time holds the chunks
\* concatenated in the order they were written
SingleThreadOrdering ==
    \A t \in Threads : \A d \in Dests :
        (Returned(t, "flush") /\ Settled(d, 1)) => content[d] = AllBytes(t)

ThresholdFlushAsStated ==
    \A t \in Threads :
        (Returned(t, "xsputn") /\ Len(frame[t].s) \in 1..(buffer_size - 1)) =>
            LET f == frame[t]
            IN IF FillAfter(f) >= flush_threshold
               THEN \A d \in Dests : nreg[d] = 1 => Delivered(t, d) = f.data0 \o f.s
               ELSE \A d \in Dests : Delivered(t, d) = <<>>

\* C4 amended: a write of fewer bytes than the capacity first delivers the
\* buffered bytes when the chunk does not fit behind them; after the append, a
\* fill of at least the threshold delivers the buffer and empties it, and a
\* fill below the threshold delivers nothing more and keeps the buffer
ThresholdFlush ==
    \A t \in Threads :
        (Returned(t, "xsputn") /\ Len(frame[t].s) \in 1..(buffer_size - 1)) =>
            LET f == frame[t]
                fits == Len(f.data0) + Len(f.s) <= buffer_size
                first == IF fits THEN <<>> ELSE f.data0
                buf == IF fits THEN f.data0 \o f.s ELSE f.s
                full == Len(buf) >= flush_threshold
            IN /\ local_buffer[t].data = IF full THEN <<>> ELSE buf
               /\ \A d \in Dests :
                      /\ nreg[d] = 1 => Delivered(t, d) = first \o (IF full THEN buf ELSE <<>>)
                      /\ nreg[d] = 0 => Delivered(t, d) = <<>>

\* a chunk brought the fill from below the threshold to the threshold or
\* above, and both destinations received the buffered bytes and the chunk
ThresholdFlushWitness ==
    \E t \in Threads :
        /\ Returned(t, "xsputn")
        /\ frame[t].data0 # <<>>
        /\ Len(frame[t].data0) + Len(frame[t].s) \in flush_threshold..buffer_size
        /\ local_buffer[t].data = <<>>
        /\ \A d \in Dests : nreg[d] = 1 /\ Delivered(t, d) = frame[t].data0 \o frame[t].s

\* C5: a write of a chunk at least as long as the capacity has delivered the
\* whole chunk to every registered destination when it returns
OversizeBypass ==
    \A t \in Threads :
        (Returned(t, "xsputn") /\ Len(frame[t].s) >= buffer_size) =>
            \A d \in Dests : Delivered(t, d) = Rep(frame[t].s, nreg[d])

\* the first call of the run wrote a chunk longer than the capacity, and both
\* destinations hold it
OversizeBypassWitness ==
    \E t \in Threads :
        /\ Returned(t, "xsputn") /\ calls = 1
        /\ Len(frame[t].s) > buffer_size
        /\ \A d \in Dests : nreg[d] = 1 /\ content[d] = frame[t].s

----------------------------------------------------------------------------
(* Buffers of several threads: Spec *)

\* C6: the bytes a thread has buffered are its own, are in no destination and
\* in no completed fan-out while they are buffered, and no step of another
\* thread changes the thread's buffer
ThreadIsolation ==
    /\ [](\A t \in Threads : \A b \in Range(local_buffer[t].data) :
              /\ Owner(b) = t
              /\ b \notin flushed
              /\ \A d \in Dests : b \notin Range(content[d]))
    /\ [][\A t \in Threads :
              local_buffer'[t] # local_buffer[t] => (pc'[t] # pc[t] \/ frame'[t] # frame[t])]_vars

\* one thread has flushed its bytes to the destination while the other
\* thread's bytes are still buffered
ThreadIsolationWitness ==
    \E a \in Threads : \E b \in Threads \ {a} :
        /\ local_buffer[a].data # <<>>
        /\ Returned(b, "flush")
        /\ \E d \in Dests : Own(content[d], b) # <<>> /\ Own(content[d], a) = <<>>

----------------------------------------------------------------------------
(* Adding and removing destinations while one thread writes: SeqSpec *)

\* the bytes whose fan-out completed while destination d was registered, up
\* to its latest removal
Owed(d) == rmSnap[d].flushed \ rmSnap[d].since

\* C7: a destination that is removed holds every byte whose fan-out completed
\* while it was registered, and no byte written after remove_stream returned
RemovalCutOff ==
    \A d \in Dests :
        nreg[d] = 0 =>
            /\ Owed(d) \subseteq Range(content[d])
            /\ \A b \in Range(content[d]) : Index(b) <= rmSnap[d].wcount[Owner(b)]

\* a destination was removed after it received bytes, and bytes written later
\* reached only the destination that is still registered
RemovalCutOffWitness ==
    \E d \in Dests : \E e \in Dests \ {d} :
        /\ nreg[d] = 0 /\ nreg[e] = 1
        /\ Owed(d) # {}
        /\ flushed \ rmSnap[d].flushed # {}
        /\ flushed \subseteq Range(content[e])

\* C8: add_stream delivers nothing, and the bytes a destination receives after
\* it was added are none of those whose fan-out had completed before
NoReplay ==
    \A d \in Dests :
        /\ \A t \in Threads :
               (Returned(t, "add") /\ frame[t].d = d) => Len(content[d]) = addSnap[d].clen
        /\ Range(SubSeq(content[d], addSnap[d].clen + 1, Len(content[d])))
               \cap addSnap[d].flushed = {}

\* a destination that held bytes was removed and added again, and then
\* received new bytes
NoReplayWitness ==
    \E d \in Dests :
        /\ nreg[d] = 1
        /\ rmSnap[d].clen > 0
        /\ addSnap[d].clen = rmSnap[d].clen
        /\ addSnap[d].since # {}
        /\ Len(content[d]) > addSnap[d].clen

\* thread t wrote X, shorter than the threshold, with only d1 registered, then
\* added d2, wrote Y and flushed
Scenario3(t) ==
    /\ Returned(t, "flush") /\ calls = 4
    /\ Len(chunks[t]) = 2
    /\ chunks[t][1] \in 1..(flush_threshold - 1)
    /\ chunks[t][2] >= 1
    /\ \A d \in Dests : nreg[d] = 1
    /\ addSnap["d1"] = NoSnap
    /\ addSnap["d2"].wcount[t] = chunks[t][1]

\* C9 as stated: in that scenario d1 holds XY and d2 holds only Y
OnlyBytesWrittenAfterAdd ==
    \A t \in Threads :
        Scenario3(t) =>
            /\ content["d1"] = AllBytes(t)
            /\ content["d2"] = BytesOf(t, chunks[t][1] + 1, wcount(t))

\* C9 amended: in that scenario d1 and d2 hold the same bytes, X and Y each
\* once, as XY when Y is shorter than the capacity
BufferedBytesReachAddedStream ==
    \A t \in Threads :
        Scenario3(t) =>
            /\ content["d2"] = content["d1"]
            /\ Range(content["d1"]) = Range(AllBytes(t))
            /\ Len(content["d1"]) = wcount(t)
            /\ chunks[t][2] < buffer_size => content["d1"] = AllBytes(t)

\* X and Y were both still buffered at the flush, which brought XY to d2
BufferedBytesReachAddedStreamWitness ==
    \E t \in Threads :
        /\ Scenario3(t)
        /\ frame[t].data0 = AllBytes(t)
        /\ content["d2"] = AllBytes(t)

\* what thread t's latest call handed to the fan-out, payload by payload
Payloads(t) ==
    LET f == frame[t]
        one(p) == IF p = <<>> THEN <<>> ELSE <<p>>
    IN CASE f.op \in {"flush", "sync"} -> one(f.data0)
         [] f.op = "xsputn" /\ Len(f.s) >= buffer_size -> one(f.s)
         [] f.op = "xsputn" /\ Len(f.s) \in 1..(buffer_size - 1) ->
                IF Len(f.data0) + Len(f.s) > buffer_size
                THEN one(f.data0) \o (IF Len(f.s) >= flush_threshold THEN one(f.s) ELSE <<>>)
                ELSE IF Len(f.data0) + Len(f.s) >= flush_threshold
                     THEN one(f.data0 \o f.s)
                     ELSE <<>>
         [] OTHER -> <<>>

RECURSIVE Repeated(_, _)
\* each payload of ps k times, back to back
Repeated(ps, k) == IF ps = <<>> THEN <<>> ELSE Rep(Head(ps), k) \o Repeated(Tail(ps), k)

\* C10: a destination added k >= 2 times receives each flushed payload k times
\* back to back
DuplicateRegistration ==
    \A t \in Threads : \A d \in Dests :
        (pc[t] = "idle" /\ frame[t].op \in {"xsputn", "flush", "sync"} /\ nreg[d] >= 2)
            => Delivered(t, d) = Repeated(Payloads(t), nreg[d])

\* a destination was added a second time during the run, and a flush brought
\* it the buffered bytes twice
DuplicateRegistrationWitness ==
    \E t \in Threads : \E d \in Dests :
        /\ Returned(t, "flush")
        /\ nreg[d] = 2 /\ addSnap[d] # NoSnap
        /\ frame[t].data0 # <<>>
        /\ Delivered(t, d) = frame[t].data0 \o frame[t].data0

----------------------------------------------------------------------------
(* Destinations that fail: FailSpec *)

\* calls in a run with failing destinations
MaxCallsFail == 4

\* a healthy and a failing destination in both orders, a failing one alone,
\* and a healthy one with one that cannot sync
FailRegistries ==
    {<<"d1", "bad">>, <<"bad", "d1">>, <<"bad">>, <<"d1", "nosync">>, <<"nosync", "d1">>}

FailInit == InitWith(Configs, FailRegistries) /\ inst = OneTeeStream

\* a write, a flush or a sync by thread t
FailCall(t) ==
    /\ calls < MaxCallsFail
    /\ \/ \E n \in ChunkLens : XsputnCall(t, n)
       \/ FlushCall(t)
       \/ SyncCall(t)

\* one thread uses a TeeStream some of whose destinations fail
FailNext ==
    \/ FailCall(MainThread)
    \/ FLock(MainThread) \/ FWrite(MainThread)
    \/ XLock(MainThread) \/ XWrite(MainThread) \/ XCopy(MainThread)
    \/ SLock(MainThread) \/ SSync(MainThread)
FailSpec == FailInit /\ [][FailNext]_vars

\* a FailingStream is registered
HasFailing == \E d \in Failing : d \in Range(streams)

\* C11: with a failing and a healthy destination registered, in either order,
\* after any writes and a flush the healthy destination holds exactly the
\* bytes written, in the order written
FailureIsolation ==
    \A t \in Threads : \A d \in Dests :
        (Returned(t, "flush") /\ HasFailing /\ Settled(d, 1)) => content[d] = AllBytes(t)

\* C12: a sync whose flush met a failing write returns -1, and a sync all of
\* whose writes and pubsyncs succeeded returns 0
FlushReportsFailure ==
    \A t \in Threads :
        Returned(t, "sync") =>
            /\ (frame[t].data0 # <<>> /\ HasFailing) => result[t] = 0 - 1
            /\ (~HasFailing /\ \A d \in Range(streams) : pubsync(d) = 0) => result[t] = 0

\* C13 as stated: xsputn(s, n) with n > 0 returns n in every case
WriteAbsorbsFailures ==
    \A t \in Threads :
        (Returned(t, "xsputn") /\ Len(frame[t].s) > 0) => result[t] = Len(frame[t].s)

\* C13 amended: xsputn(s, n) with 0 < n < capacity returns n in every case, and
\* with n >= capacity it returns n when every registered destination took the
\* write and 0 when one of them failed
WriteReportsBypassFailure ==
    \A t \in Threads :
        (Returned(t, "xsputn") /\ Len(frame[t].s) > 0) =>
            result[t] = IF Len(frame[t].s) >= buffer_size /\ HasFailing
                        THEN 0
                        ELSE Len(frame[t].s)

\* a chunk shorter than the capacity filled the buffer to the threshold, the
\* flush went through a failing destination, and xsputn returned n
WriteReportsBypassFailureWitness ==
    \E t \in Threads :
        /\ Returned(t, "xsputn")
        /\ Len(frame[t].s) \in 1..(buffer_size - 1)
        /\ \E d \in Failing : d \in Range(frame[t].visited)
        /\ result[t] = Len(frame[t].s)

----------------------------------------------------------------------------
(* No destination registered: SeqSpec *)

\* C14: with no stream registered xsputn returns n and sync returns 0, and the
\* bytes of a fan-out that found no stream are in no destination, also not in
\* one added later
EmptyRegistry ==
    /\ \A t \in Threads :
           streams = <<>> =>
               /\ Returned(t, "xsputn") => result[t] = Len(frame[t].s)
               /\ Returned(t, "sync") => result[t] = 0
    /\ \A f \in fanouts :
           f.seen = <<>> => \A d \in AllDests : Range(f.payload) \cap Range(content[d]) = {}

\* a fan-out found no stream and its bytes are gone; a destination added
\* afterwards has received only later bytes
EmptyRegistryWitness ==
    \E f \in fanouts : \E d \in Dests :
        /\ f.seen = <<>> /\ f.payload # <<>>
        /\ nreg[d] = 1 /\ content[d] # <<>>
        /\ \A b \in Range(content[d]) : \A c \in Range(f.payload) : Index(b) > Index(c)

----------------------------------------------------------------------------
(* Several threads writing and flushing at once: Spec *)

\* no thread is inside a call and no thread has bytes buffered
Quiescent == \A t \in Threads : pc[t] = "idle" /\ local_buffer[t].data = <<>>

\* every chunk written was shorter than the capacity, as a line is
OnlyLines == \A t \in Threads : \A j \in 1..Len(chunks[t]) : chunks[t][j] < buffer_size

\* payload p is in content c in one piece
Whole(p, c) == \E j \in 0..(Len(c) - Len(p)) : SubSeq(c, j + 1, j + Len(p)) = p

\* C15: when the threads have written their lines and flushed, each
\* destination registered for the whole run holds every thread's bytes once
\* and in the order the thread wrote them
NoLossNoDuplication ==
    (Quiescent /\ OnlyLines) =>
        \A t \in Threads : \A d \in Dests :
            Settled(d, 1) => Own(content[d], t) = AllBytes(t)

\* destination d holds every byte of every thread once, in the order the
\* thread wrote it
Complete(d) == \A t \in Threads : Own(content[d], t) = AllBytes(t)

\* C16: when the threads have written and flushed, two destinations
\* registered for the whole run hold the same content, even when each of
\* them holds every thread's bytes in full
IdenticalContent ==
    Quiescent =>
        \A d \in Dests : \A e \in Dests :
            (Settled(d, 1) /\ Settled(e, 1) /\ Complete(d) /\ Complete(e))
                => content[d] = content[e]

\* C17: a payload of a finished fan-out is in a destination in one piece or
\* not at all
NoTornPayloads ==
    \A f \in fanouts : \A d \in Dests :
        Range(f.payload) \cap Range(content[d]) # {} => Whole(f.payload, content[d])

\* thread t is in a loop over the streams vector
Iterating(t) == pc[t] \in {"f_write", "x_write", "s_sync"}

\* thread t is changing the streams vector
Mutating(t) == pc[t] \in {"a_emplace", "r_erase"}

\* C18: a thread changes the streams vector only as the exclusive owner of
\* the lock and with no other thread in a loop over it or changing it; a
\* thread in a loop holds the lock shared and finds the vector as it was when
\* the loop began, and a finished loop has been through exactly the streams
\* it found
MembershipAtomicity ==
    \A t \in Threads :
        /\ Mutating(t) =>
               /\ streams_mutex = [writer |-> t, readers |-> {}]
               /\ \A u \in Threads \ {t} : ~Iterating(u) /\ ~Mutating(u)
        /\ Iterating(t) =>
               /\ streams_mutex.writer = NoThread /\ t \in streams_mutex.readers
               /\ frame[t].seen = streams
               /\ frame[t].visited = SubSeq(streams, 1, frame[t].i - 1)
        /\ ~Iterating(t) => frame[t].visited = frame[t].seen

\* add_stream or remove_stream waits for the lock while another thread is in
\* the middle of a fan-out over two streams
MembershipAtomicityWitness ==
    \E t \in Threads : \E u \in Threads \ {t} :
        /\ pc[t] \in {"a_lock", "r_lock"}
        /\ pc[u] = "f_write" /\ Len(streams) = 2 /\ frame[u].i = 2
        /\ ~CanLockUnique

----------------------------------------------------------------------------
(* ~TeeStreamBuf(), lines 153-155: DtorSpec *)

\* calls in a run that ends with the destructor
MaxCallsDtor == 4

\* the destructor has been called
Destroyed == \E u \in Threads : frame[u].op = "dtor"

\* thread t destroys the TeeStream while no other thread is inside a call:
\* line 154 calls sync(), which starts with line 260
DtorCall(t) ==
    /\ pc[t] = "idle"
    /\ \A u \in Threads : pc[u] \in {"idle", "exited"}
    /\ FlushEntry(t, get_thread_buffer(t),
                  [NoFrame EXCEPT !.op = "dtor", !.mark = OwnMark(t),
                                  !.data0 = get_thread_buffer(t).data],
                  "s_lock")
    /\ calls' = calls + 1
    /\ UNCHANGED <<given, inst, buffer_size, flush_threshold, streams, streams_mutex, content, racing,
                   result, chunks, flushed, fanouts, raced, dirty, nreg, addSnap, rmSnap>>

\* the chunks written before the destructor: they stay buffered until the
\* threshold is reached
DtorLens == {1, 2}

DtorInit == InitWith(ConfigsMT, {<<"d1", "d2">>}) /\ inst = OneTeeStream

\* a write by thread t, or the destructor, on a TeeStream that is not destroyed
DtorStep(t) ==
    /\ ~Destroyed
    /\ calls < MaxCallsDtor
    /\ \/ \E n \in DtorLens : XsputnCall(t, n)
       \/ DtorCall(t)

\* threads write to a TeeStream until one of them destroys it
DtorNext ==
    \E t \in Threads :
        \/ DtorStep(t)
        \/ FLock(t) \/ FWrite(t)
        \/ SLock(t) \/ SSync(t)
DtorSpec == DtorInit /\ [][DtorNext]_vars

\* C19: when the destructor has returned, the bytes every thread had written
\* are in the registered destinations and no thread has bytes buffered
FlushOnDestruction ==
    \A t \in Threads :
        Returned(t, "dtor") =>
            \A u \in Threads :
                /\ local_buffer[u].data = <<>>
                /\ \A d \in Range(streams) : Range(AllBytes(u)) \subseteq Range(content[d])

----------------------------------------------------------------------------
(* Two TeeStream objects used by one thread: InstSpec *)

\* calls in a run on two TeeStream objects
MaxCallsInst == 3

\* the times the thread turns from one TeeStream to the other
MaxSwitches == 2

\* the first TeeStream has d1, the second one, of another size, has d2
InstInit ==
    /\ InitWith(Configs, {<<"d1">>})
    /\ inst = [this |-> 1, other |-> Members(3, 2, <<"d2">>), marks |-> <<>>]

\* the thread turns to the other TeeStream: its members are the ones the
\* next calls use; local_buffer is static and stays
UseOther(t) ==
    /\ pc[t] = "idle"
    /\ Len(inst.marks) < MaxSwitches
    /\ inst' = [this |-> 3 - inst.this,
                other |-> [buffer_size |-> buffer_size, flush_threshold |-> flush_threshold,
                           streams |-> streams, streams_mutex |-> streams_mutex],
                marks |-> Append(inst.marks, wcount(t))]
    /\ buffer_size' = inst.other.buffer_size
    /\ flush_threshold' = inst.other.flush_threshold
    /\ streams' = inst.other.streams
    /\ streams_mutex' = inst.other.streams_mutex
    /\ UNCHANGED <<given, local_buffer, content, racing, pc, frame, result, chunks, calls,
                   flushed, fanouts, raced, dirty, nreg, addSnap, rmSnap>>

\* a write or a flush on the TeeStream the thread has turned to
InstCall(t) ==
    /\ calls < MaxCallsInst
    /\ \/ \E n \in ChunkLens : XsputnCall(t, n)
       \/ FlushCall(t)

\* one thread uses two TeeStream objects in turn
InstNext ==
    \/ UseOther(MainThread)
    \/ InstCall(MainThread)
    \/ FLock(MainThread) \/ FWrite(MainThread)
    \/ XLock(MainThread) \/ XWrite(MainThread) \/ XCopy(MainThread)
InstSpec == InstInit /\ [][InstNext]_vars

\* the streams vector of TeeStream i
StreamsOf(i) == IF inst.this = i THEN streams ELSE inst.other.streams

\* the TeeStream byte b was written into: the first one, then the other one
\* after each turn
WrittenInto(b) ==
    1 + (Cardinality({j \in 1..Len(inst.marks) : inst.marks[j] < Index(b)}) % 2)

\* C20: a byte is delivered only to destinations registered with the
\* TeeStream it was written into
InstanceIsolation ==
    \A d \in Dests : \A b \in Range(content[d]) : d \in Range(StreamsOf(WrittenInto(b)))

----------------------------------------------------------------------------
(* The constructor with any capacity and threshold: CtorSpec *)

\* calls in a run on a TeeStream of any configuration
MaxCallsCtor == 2

\* every capacity from 1 on with every threshold a size_t can hold
CtorConfigs == {<<c, th>> : c \in 1..(SizeMod - 1), th \in 0..(SizeMod - 1)}

CtorInit == InitWith(CtorConfigs, {<<"d1">>}) /\ inst = OneTeeStream

\* the chunk lengths tried on a TeeStream of any configuration: nothing, one
\* byte, two, the threshold, the longest chunk that is buffered and the capacity
CtorLens == {0, 1, 2, flush_threshold, buffer_size - 1, buffer_size}

\* a write or a flush on the TeeStream just constructed
CtorCall(t) ==
    /\ calls < MaxCallsCtor
    /\ \/ \E n \in CtorLens : XsputnCall(t, n)
       \/ FlushCall(t)

CtorNext ==
    \/ CtorCall(MainThread)
    \/ FLock(MainThread) \/ FWrite(MainThread)
    \/ XLock(MainThread) \/ XWrite(MainThread) \/ XCopy(MainThread)
CtorSpec == CtorInit /\ [][CtorNext]_vars

\* C21: the TeeStream constructed with capacity C >= 1 and threshold T has a
\* threshold below C: T when T < C, and floor(3 * C / 4) when T >= C
ThresholdClamping ==
    LET C == given[1]
        T == given[2]
    IN /\ buffer_size = C
       /\ flush_threshold < C
       /\ flush_threshold = IF T < C THEN T ELSE (3 * C) \div 4

----------------------------------------------------------------------------
(* add_stream and remove_stream on any registry: RegSpec *)

\* add_stream and remove_stream calls in a run
MaxCallsReg == 4

\* the constructor is given no stream, or a stream twice with another between
RegRegistries == {<<>>, <<"d1", "d2", "d1">>}

RegInit == InitWith(Configs, RegRegistries) /\ inst = OneTeeStream

\* any stream is added, or removed whether it is registered or not
RegCall(t) ==
    /\ calls < MaxCallsReg
    /\ \/ \E d \in AllDests : AddCall(t, d)
       \/ \E d \in AllDests : RemoveCall(t, d)

RegNext ==
    \/ RegCall(MainThread)
    \/ ALock(MainThread) \/ AEmplace(MainThread)
    \/ RLock(MainThread) \/ RErase(MainThread)
RegSpec == RegInit /\ [][RegNext]_vars

\* the positions of reg that do not hold destination d
Others(reg, d) == {j \in 1..Len(reg) : reg[j] # d}

\* C22: after remove_stream(d) the registry holds the entries other than d
\* it held before, each at the place its rank among them gives it, and no d;
\* it is the registry as it was when d was not registered
RemoveDeletesAll ==
    \A t \in Threads :
        Returned(t, "remove") =>
            LET d == frame[t].d
                before == frame[t].seen
                kept == Others(before, d)
            IN /\ Len(streams) = Cardinality(kept)
               /\ \A j \in kept :
                     streams[Cardinality({k \in kept : k <= j})] = before[j]
               /\ d \notin Range(before) => streams = before

\* a stream registered twice, with two other streams around its second
\* entry, was removed
RemoveDeletesAllWitness ==
    \E t \in Threads :
        /\ Returned(t, "remove")
        /\ Count(frame[t].seen, frame[t].d) = 2
        /\ Len(frame[t].seen) = 4
        /\ frame[t].seen[3] = frame[t].d
        /\ Len(streams) = 2 /\ streams[1] # streams[2]

----------------------------------------------------------------------------
(* TeeStream(Streams&... streams): ListSpec *)

\* calls in a run on a TeeStream constructed from a list of streams
MaxCallsList == 3

\* the lists of streams the constructor is given
ListRegistries == {<<"d1">>, <<"d1", "d2">>, <<"d2", "d1">>, <<"d2", "bad", "d1">>}

ListInit == InitWith(Configs, ListRegistries) /\ inst = OneTeeStream

\* a write or a flush; no stream is added or removed
ListCall(t) ==
    /\ calls < MaxCallsList
    /\ \/ \E n \in ChunkLens : XsputnCall(t, n)
       \/ FlushCall(t)

ListNext ==
    \/ ListCall(MainThread)
    \/ FLock(MainThread) \/ FWrite(MainThread)
    \/ XLock(MainThread) \/ XWrite(MainThread) \/ XCopy(MainThread)
ListSpec == ListInit /\ [][ListNext]_vars

\* C23: the TeeStream constructed from streams s1..sn holds s1..sn, one
\* entry each in that order, and after one write and a flush each healthy one
\* of them holds the bytes written and no other stream holds anything
ConstructorWithStreams ==
    /\ Len(streams) = Len(given[3])
    /\ \A j \in 1..Len(streams) : streams[j] = given[3][j]
    /\ \A t \in Threads :
          (Returned(t, "flush") /\ Len(chunks[t]) = 1) =>
              \A d \in Dests :
                  content[d] = IF d \in Range(given[3]) THEN AllBytes(t) ELSE <<>>

\* the constructor was given d2 before d1, and the bytes of a buffered write
\* came to both with the flush
ConstructorWithStreamsWitness ==
    \E t \in Threads :
        /\ Returned(t, "flush") /\ Len(chunks[t]) = 1
        /\ frame[t].data0 = AllBytes(t) /\ AllBytes(t) # <<>>
        /\ given[3] = <<"d2", "d1">>
        /\ frame[t].visited = <<"d2", "d1">>
        /\ \A d \in Dests : content[d] = AllBytes(t)

----------------------------------------------------------------------------
(* A destination whose write throws: ThrowSpec *)

\* calls in a run with a throwing destination
MaxCallsThrow == 3

\* the throwing destination is registered before or after a healthy one
ThrowRegistries == {<<"thrower", "d1">>, <<"d1", "thrower">>}

ThrowInit == InitWith(Configs, ThrowRegistries) /\ inst = OneTeeStream

ThrowCall(t) ==
    /\ calls < MaxCallsThrow
    /\ \/ \E n \in ChunkLens : XsputnCall(t, n)
       \/ FlushCall(t)

\* the flush of a full buffer (line 243) is left by the exception, so the
\* copy of line 247 that follows it is never reached
ThrowNext ==
    \/ ThrowCall(MainThread)
    \/ FLock(MainThread) \/ FWrite(MainThread)
    \/ XLock(MainThread) \/ XWrite(MainThread)
ThrowSpec == ThrowInit /\ [][ThrowNext]_vars

\* thread t is back from a flush of buffered bytes
FlushedSome(t) == Returned(t, "flush") /\ frame[t].data0 # <<>>

\* thread t is back from a write that went past the buffer
Bypassed(t) == Returned(t, "xsputn") /\ frame[t].path = "bypass"

\* C24: a fan-out in which a destination's write throws still brings the
\* payload to every other registered destination, and no exception leaves
\* the write or the flush
ThrowingDestination ==
    \A t \in Threads :
        /\ FlushedSome(t) =>
              /\ ~frame[t].exc
              /\ \A d \in Dests \cap Range(streams) : Delivered(t, d) = frame[t].data0
        /\ Bypassed(t) =>
              /\ ~frame[t].exc
              /\ \A d \in Dests \cap Range(streams) : Delivered(t, d) = frame[t].s

----------------------------------------------------------------------------
(* The buffer and the steps of flush and write: CtorSpec *)

\* C25: the bytes a thread's buffer holds are never more than its capacity,
\* between the calls and right after the copy of a chunk into it
BufferBound ==
    \A t \in Threads :
        local_buffer[t] # NoBuffer =>
            /\ used(local_buffer[t]) <= local_buffer[t].size
            /\ frame[t].fill <= local_buffer[t].size

\* a chunk that did not fit behind the buffered bytes was copied to the start
\* of the emptied buffer
BufferBoundWitness ==
    \E t \in Threads :
        /\ Returned(t, "xsputn") /\ frame[t].path = "overflow"
        /\ Len(frame[t].data0) + Len(frame[t].s) > local_buffer[t].size
        /\ frame[t].fill = Len(frame[t].s)

----------------------------------------------------------------------------
(* The steps of flush, write and sync by one thread: SeqSpec *)

\* C26: a flush that finds the buffer empty calls write on no stream and
\* delivers nothing; a flush that finds k > 0 bytes empties the buffer before
\* the first write and brings exactly these bytes once to each entry of the
\* registry; the buffer is empty when flush returns
FlushStep ==
    \A t \in Threads :
        /\ (pc[t] = "f_write" /\ frame[t].op = "flush") =>
              /\ local_buffer[t].data = <<>>
              /\ frame[t].buffer_copy = frame[t].data0
        /\ Returned(t, "flush") =>
              /\ local_buffer[t].data = <<>>
              /\ frame[t].visited = (IF frame[t].data0 = <<>> THEN <<>> ELSE streams)
              /\ \A d \in Dests :
                    Delivered(t, d) = Rep(frame[t].data0, Count(streams, d))

\* a flush found the buffer empty, the only chunk written, shorter than the
\* threshold, having been brought to the registered stream by an earlier call
FlushStepWitness ==
    \E t \in Threads :
        /\ Returned(t, "flush") /\ frame[t].data0 = <<>>
        /\ Len(chunks[t]) = 1 /\ chunks[t][1] \in 1..(flush_threshold - 1)
        /\ streams = <<"d1">> /\ content["d1"] = AllBytes(t)
        /\ frame[t].visited = <<>>

\* thread t makes a call of xsputn with n = 0 in this step
EmptyWrite(t) == chunks'[t] = Append(chunks[t], 0)

\* C27: a write of length 0 returns 0 at once and leaves the buffers, the
\* registry and the destinations as they are; nothing is flushed
ZeroLengthWrite ==
    [][\A t \in Threads :
          EmptyWrite(t) =>
              /\ pc'[t] = "idle" /\ result'[t] = 0
              /\ local_buffer' = local_buffer
              /\ streams' = streams
              /\ content' = content
              /\ fanouts' = fanouts]_vars

\* a write of length 0 has returned while bytes are buffered and a stream is
\* registered that has not received them
ZeroLengthWriteWitness ==
    \E t \in Threads :
        /\ Returned(t, "xsputn") /\ frame[t].s = <<>> /\ frame[t].path = "empty"
        /\ local_buffer[t].data # <<>>
        /\ streams # <<>>
        /\ \A d \in Range(streams) : content[d] = <<>>

----------------------------------------------------------------------------
(* sync and the fan-outs with failing destinations: FailSpec *)

\* C28: sync has called pubsync on every registered stream, those after a
\* stream whose pubsync failed included, and returns 0 when every pubsync
\* succeeded and -1 when one failed
SyncAll ==
    \A t \in Threads :
        Returned(t, "sync") =>
            /\ frame[t].visited = streams
            /\ result[t] = IF Range(streams) \cap SyncFailing = {} THEN 0 ELSE 0 - 1

\* sync went on to the healthy stream behind the one whose pubsync failed,
\* and reported the failure
SyncAllWitness ==
    \E t \in Threads :
        /\ Returned(t, "sync")
        /\ frame[t].visited = <<"nosync", "d1">>
        /\ result[t] = 0 - 1

\* C29: a fan-out calls write once on each entry of the registry, failing
\* ones included; write, flush and sync leave the registry as it was
\* constructed, so a failing stream is written to again by the next fan-out
NoRetryNoEviction ==
    /\ streams = given[3]
    /\ \A t \in Threads :
          /\ (FlushedSome(t) \/ Bypassed(t)) => frame[t].visited = streams
          /\ pc[t] = "idle" => frame[t].visited \in {<<>>, streams}
    /\ \A f \in fanouts : f.seen = streams

\* the second flush of a run has written to the failing stream again, and
\* then to the healthy one
NoRetryNoEvictionWitness ==
    \E t \in Threads :
        /\ FlushedSome(t)
        /\ frame[t].visited = <<"bad", "d1">>
        /\ Cardinality({f \in fanouts : f.payload # <<>>}) = 2
        /\ content["bad"] = <<>>
        /\ content["d1"] = AllBytes(t)

----------------------------------------------------------------------------
(* The order of the registry: SeqSpec *)

\* thread t is back from a call that went through the streams
FannedOut(t) == FlushedSome(t) \/ Bypassed(t) \/ Returned(t, "sync")

\* thread t finishes add_stream in this step
Adds(t) == pc[t] = "a_emplace" /\ pc'[t] = "idle"

\* C30: a fan-out (flush, bypass or sync) goes through the entries of the
\* registry from the first to the last, and add_stream puts the new entry
\* behind the entries there are, which it leaves in place
RegistrationOrder ==
    /\ [](\A t \in Threads :
             /\ Iterating(t) => frame[t].visited = SubSeq(streams, 1, frame[t].i - 1)
             /\ FannedOut(t) => frame[t].visited = streams)
    /\ [][\A t \in Threads :
             Adds(t) =>
                 /\ Len(streams') = Len(streams) + 1
                 /\ streams'[Len(streams')] = frame[t].d
                 /\ \A j \in 1..Len(streams) : streams'[j] = streams[j]]_vars

\* d1, registered first, was removed and added again: the flush wrote to d2
\* and then to d1
RegistrationOrderWitness ==
    \E t \in Threads :
        /\ FlushedSome(t)
        /\ given[3] = <<"d1", "d2">>
        /\ frame[t].visited = <<"d2", "d1">>
        /\ content["d1"] = content["d2"] /\ content["d1"] # <<>>

----------------------------------------------------------------------------
(* The paths of xsputn by one thread: SeqSpec *)

\* thread t is back from a write that found no room behind the buffered bytes
Overflowed(t) == Returned(t, "xsputn") /\ frame[t].path = "overflow"

\* C31: when a chunk shorter than the capacity does not fit, the buffered
\* bytes are at every registered destination and the buffer is empty before
\* the chunk is copied; the copy leaves exactly the chunk in the buffer
OverflowFlush ==
    \A t \in Threads :
        /\ pc[t] = "x_copy" =>
              /\ Len(frame[t].data0) + Len(frame[t].s) > local_buffer[t].size
              /\ local_buffer[t].data = <<>>
              /\ \A d \in Dests :
                    Delivered(t, d) = Rep(frame[t].data0, Count(streams, d))
        /\ Overflowed(t) =>
              /\ frame[t].fill = Len(frame[t].s)
              /\ local_buffer[t].data =
                    (IF Len(frame[t].s) >= flush_threshold THEN <<>> ELSE frame[t].s)

\* the buffered bytes went to the destination and the chunk, shorter than
\* the threshold, is what the buffer holds
OverflowFlushWitness ==
    \E t \in Threads :
        /\ Overflowed(t)
        /\ frame[t].data0 # <<>>
        /\ streams = <<"d1">> /\ Delivered(t, "d1") = frame[t].data0
        /\ local_buffer[t].data = frame[t].s

----------------------------------------------------------------------------
(* Threads that end: ExitSpec *)

\* calls, and thread exits, in a run with threads that end
MaxCallsExit == 4

\* a thread exit that flushes the thread's buffer first
ThreadExit_Flushing(t) ==
    /\ pc[t] = "idle"
    /\ FlushEntry(t, get_thread_buffer(t),
                  [NoFrame EXCEPT !.op = "exit", !.data0 = get_thread_buffer(t).data],
                  "exited")
    /\ calls' = calls + 1
    /\ UNCHANGED <<given, inst, buffer_size, flush_threshold, streams, streams_mutex, content,
                   racing, result, chunks, flushed, fanouts, raced, dirty, nreg, addSnap, rmSnap>>

\* thread t ends: its thread_local unique_ptr (line 127) is destroyed and the
\* ThreadBuffer freed with the bytes it holds; data0 remembers them
ThreadExit(t) ==
    /\ pc[t] = "idle"
    /\ pc' = [pc EXCEPT ![t] = "exited"]
    /\ frame' = [frame EXCEPT ![t] = [NoFrame EXCEPT !.op = "exit",
                                                     !.data0 = local_buffer[t].data]]
    /\ local_buffer' = [local_buffer EXCEPT ![t] = NoBuffer]
    /\ calls' = calls + 1
    /\ UNCHANGED <<given, inst, buffer_size, flush_threshold, streams, streams_mutex, content,
                   racing, result, chunks, flushed, fanouts, raced, dirty, nreg, addSnap, rmSnap>>

ExitInit == InitWith(ConfigsMT, {<<"d1">>}) /\ inst = OneTeeStream

\* thread t writes, flushes, destroys the TeeStream or ends
ExitStep(t) ==
    /\ ~Destroyed
    /\ calls < MaxCallsExit
    /\ \/ \E n \in DtorLens : XsputnCall(t, n)
       \/ FlushCall(t)
       \/ DtorCall(t)
       \/ ThreadExit(t)

ExitNext ==
    \E t \in Threads :
        \/ ExitStep(t)
        \/ FLock(t) \/ FWrite(t)
        \/ SLock(t) \/ SSync(t)
ExitSpec == ExitInit /\ [][ExitNext]_vars

\* thread t has ended
Exited(t) == pc[t] = "exited"

\* C32: the bytes a thread had in its buffer when it ended are in no
\* destination, whatever the other threads flush and also when the TeeStream
\* has been destroyed
UnflushedBytesLost ==
    \A t \in Threads :
        Exited(t) =>
            \A d \in AllDests : Range(frame[t].data0) \cap Range(content[d]) = {}

\* a thread ended with bytes buffered, the other thread wrote, and destroyed
\* the TeeStream: the destination holds the bytes of the other thread
UnflushedBytesLostWitness ==
    \E t, u \in Threads :
        /\ Exited(t) /\ frame[t].data0 # <<>>
        /\ Returned(u, "dtor")
        /\ content["d1"] = AllBytes(u) /\ AllBytes(u) # <<>>

----------------------------------------------------------------------------
(* Buffers and the lock with several threads: Spec *)

\* thread t takes the step
Acts(t) == pc'[t] # pc[t] \/ frame'[t] # frame[t]

\* C33: the buffer of a thread changes only in a step of that thread's own
\* xsputn, flush or sync, a step that leaves every other thread's buffer as it
\* is; no step of add_stream or remove_stream changes a buffer
BufferFrame ==
    [][\A t \in Threads :
          local_buffer'[t] # local_buffer[t] =>
              /\ Acts(t)
              /\ frame'[t].op \in {"xsputn", "flush", "sync"}
              /\ \A u \in Threads \ {t} :
                    ~Acts(u) /\ local_buffer'[u] = local_buffer[u]]_vars

\* a thread has flushed its bytes to the stream while the bytes another
\* thread wrote are all still in that thread's buffer
BufferFrameWitness ==
    \E t, u \in Threads :
        /\ t # u
        /\ FlushedSome(u) /\ content["d1"] = AllBytes(u)
        /\ pc[t] = "idle" /\ local_buffer[t].data = AllBytes(t) /\ AllBytes(t) # <<>>

\* thread t is about to take the lock shared, in flush_thread_buffer, the
\* bypass of xsputn or sync
AtSharedLock(t) == pc[t] \in {"f_lock", "x_lock", "s_lock"}

\* the step in which thread t gets the shared lock
LockStep(t) == FLock(t) \/ XLock(t) \/ SLock(t)

\* C34: a thread about to take the lock shared can go on unless a thread is
\* inside add_stream or remove_stream holding it exclusively: threads inside
\* their fan-out loops do not keep it waiting
FlushesShareLock ==
    \A t \in Threads :
        AtSharedLock(t) => (ENABLED LockStep(t) <=> ~(\E u \in Threads : Mutating(u)))

\* two threads are inside the loop of flush_thread_buffer at the same time
FlushesShareLockWitness ==
    \E t, u \in Threads :
        /\ t # u
        /\ pc[t] = "f_write" /\ pc[u] = "f_write"
        /\ streams_mutex.readers = {t, u}

\* C35: no two threads are inside a call of write or pubsync on the same
\* destination at the same time
DestinationExclusive ==
    \A t, u \in Threads :
        (t # u /\ Iterating(t) /\ Iterating(u)) => CurDest(t) # CurDest(u)

\* thread t is about to take the lock, shared or exclusively
AtLock(t) == AtSharedLock(t) \/ pc[t] \in {"a_lock", "r_lock"}

\* C36: a thread about to take the lock does not hold it; the lock is held,
\* shared, by the threads inside a loop over the streams and, exclusively, by
\* the thread inside add_stream or remove_stream, and by no other; and when a
\* call is pending some thread can take a step
NoDeadlock ==
    /\ \A t \in Threads :
          /\ AtLock(t) => (t \notin streams_mutex.readers /\ streams_mutex.writer # t)
          /\ t \in streams_mutex.readers <=> Iterating(t)
          /\ streams_mutex.writer = t <=> Mutating(t)
    /\ (\E t \in Threads : pc[t] # "idle") => (\E u \in Threads : ENABLED Step(u))

\* sync has flushed and given the lock back, and waits for it while another
\* thread is inside add_stream
NoDeadlockWitness ==
    \E t, u \in Threads :
        /\ pc[t] = "s_lock" /\ frame[t].data0 # <<>>
        /\ pc[u] = "a_emplace"
        /\ ~ENABLED Step(t)

----------------------------------------------------------------------------
(* Calls that return: LiveSpec *)

\* calls other than sync in a run in which threads call sync again and again
MaxCallsLive == 3

LiveInit == InitWith(ConfigsMT, RegistriesMT) /\ inst = OneTeeStream

\* thread t calls sync, any number of times in a run
LiveSync(t) == SyncEnter(t) /\ UNCHANGED calls

\* thread t makes one of the other calls
LiveCall(t) ==
    /\ calls < MaxCallsLive
    /\ \/ \E n \in DtorLens : XsputnCall(t, n)
       \/ FlushCall(t)
       \/ \E d \in AddedMT : AddCall(t, d)
       \/ \E d \in RemovedMT : RemoveCall(t, d)

\* a step inside a call, the copy after a flush for room left out: the
\* chunks are too short for it
LiveStep(t) ==
    \/ FLock(t) \/ FWrite(t)
    \/ SLock(t) \/ SSync(t)
    \/ ALock(t) \/ AEmplace(t)
    \/ RLock(t) \/ RErase(t)

LiveNext == \E t \in Threads : LiveSync(t) \/ LiveCall(t) \/ LiveStep(t)

\* a thread inside a call goes on when it can: it is scheduled, stream.write
\* and pubsync return, and a lock that stays free is taken.  std::shared_mutex
\* promises no more to a thread that waits for a lock which other threads
\* take and release
LiveFair == \A t \in Threads : WF_vars(LiveStep(t))
LiveSpec == LiveInit /\ [][LiveNext]_vars /\ LiveFair

\* C37: every call, once made, returns
Completion ==
    \A t \in Threads : (pc[t] # "idle") ~> (pc[t] = "idle")

----------------------------------------------------------------------------
(* The buffer at rest, for every capacity and threshold: CtorSpec *)

\* C38: the buffer of a thread that is in no call is empty or holds fewer
\* bytes than the threshold
FillBelowThreshold ==
    \A t \in Threads :
        (pc[t] = "idle" /\ local_buffer[t] # NoBuffer) =>
            \/ used(local_buffer[t]) = 0
            \/ used(local_buffer[t]) < flush_threshold

\* a second write has returned and left the buffer one byte short of the
\* threshold
FillBelowThresholdWitness ==
    \E t \in Threads :
        /\ Returned(t, "xsputn") /\ Len(chunks[t]) = 2
        /\ frame[t].data0 # <<>>
        /\ used(local_buffer[t]) = flush_threshold - 1
        /\ local_buffer[t].data = AllBytes(t)

----------------------------------------------------------------------------
(* The bypass and the buffer: SeqSpec *)

\* C39: a write of a chunk as long as the capacity or longer brings the chunk
\* to each entry of the registry and leaves in the buffer what was there: the
\* buffered bytes are neither delivered nor dropped
BypassFrame ==
    \A t \in Threads :
        /\ (pc[t] \in {"x_lock", "x_write"}) => local_buffer[t].data = frame[t].data0
        /\ Bypassed(t) =>
              /\ local_buffer[t].data = frame[t].data0
              /\ \A d \in Dests :
                    Delivered(t, d) = Rep(frame[t].s, Count(streams, d))

\* bytes were buffered when a chunk longer than the capacity was written: the
\* destination holds the chunk alone and the buffer the bytes it held
BypassFrameWitness ==
    \E t \in Threads :
        /\ Bypassed(t)
        /\ Len(frame[t].s) > buffer_size
        /\ frame[t].data0 # <<>> /\ local_buffer[t].data = frame[t].data0
        /\ streams = <<"d1">> /\ content["d1"] = frame[t].s

====
